---- MODULE Spec2Model ----
(***************************************************************************)
(* ProctorLink API (src/main.py): exam records behind a password-gated     *)
(* short link, a log of proctoring events per exam, and the export of that *)
(* log as a table.                                                         *)
(*                                                                         *)
(* Every handler is an `async def` without an await, so a handler runs to  *)
(* completion before the next one starts: one action per handler.          *)
(*                                                                         *)
(* Representation.                                                         *)
(*   - an Optional value is a sequence: <<>> is None, <<v>> is v;          *)
(*   - an identifier string (the {exam_id} path parameter, str(ObjectId))  *)
(*     is a sequence of one-character strings, so that ObjectId's parsing  *)
(*     can be computed; an ObjectId value is its 24 lower-case hex digits; *)
(*   - a datetime is an integer count of milliseconds since the epoch      *)
(*     (the precision the store keeps); the server's local zone is UTC;    *)
(*   - datetime.now(timezone.utc) reads the system's real-time clock,      *)
(*     which passes and can be set between two reads: each reading is an   *)
(*     input of the handler that takes it;                                 *)
(*   - a collection is the sequence of its documents in insertion order;   *)
(*   - a store call on a configured handle succeeds.                       *)
(*                                                                         *)
(* Two specifications explore the same handlers with different request     *)
(* domains: Spec varies what create_exam is given and draws (bodies,       *)
(* colliding slugs), SpecLog varies the clock readings and what log_event  *)
(* is given.                                                               *)
(***************************************************************************)
EXTENDS Integers, Sequences, FiniteSets, TLC

VARIABLES
    db,        \* database.db: TRUE when a Database handle is configured, FALSE when it is None
    exam,      \* collection db["exam"]
    examlog,   \* collection db["examlog"]
    resp,      \* what the latest request returned to its caller
    issued,    \* history: the create_exam calls that returned 200, with the password each was given
    acked      \* history: the log_event calls that returned 200 (the identifier in lower case)

vars == <<db, exam, examlog, resp, issued, acked>>

-----------------------------------------------------------------------------
(* Bound of the model *)

\* The number of documents the store holds, both collections together.
MaxDocs == 3

-----------------------------------------------------------------------------
(* Optional values and Python truthiness *)

None == <<>>
Some(v) == <<v>>
IsNone(o) == o = <<>>

\* bool(o) for o an Optional[int]: None and 0 are falsy.
TruthyInt(o) == o # <<>> /\ o[1] # 0

\* bool(o) for o an Optional[str]: None and "" are falsy.
TruthyStr(o) == o # <<>> /\ o[1] # ""

-----------------------------------------------------------------------------
(* Identifiers *)

HexLower == {"0","1","2","3","4","5","6","7","8","9","a","b","c","d","e","f"}
HexUpper == {"A","B","C","D","E","F"}

ToLowerChar(c) ==
    CASE c = "A" -> "a" [] c = "B" -> "b" [] c = "C" -> "c"
      [] c = "D" -> "d" [] c = "E" -> "e" [] c = "F" -> "f"
      [] OTHER -> c

ToUpperChar(c) ==
    CASE c = "a" -> "A" [] c = "b" -> "B" [] c = "c" -> "C"
      [] c = "d" -> "D" [] c = "e" -> "E" [] c = "f" -> "F"
      [] OTHER -> c

\* A plausible slip: only the length of the identifier is checked.
ObjectIdValidLengthOnly(s) == Len(s) = 24

\* ObjectId(s) accepts a str of exactly 24 hex digits of either case.
ObjectIdValid(s) == Len(s) = 24 /\ \A i \in 1 .. Len(s) : s[i] \in HexLower \cup HexUpper

\* The value ObjectId(s) holds: the 12 bytes, written as 24 lower-case hex digits.
ObjectIdOf(s) == [i \in 1 .. 24 |-> ToLowerChar(s[i])]

\* The part of a generated ObjectId that is fixed for one process (timestamp and random bytes).
OidPrefix ==
    <<"6","5","f","1","c","0","a","2","b","3","d","4",
      "e","5","f","6","a","7","b","8","c","9","d">>

HexDigit(k) ==
    CASE k = 1 -> "a" [] k = 2 -> "b" [] k = 3 -> "c" [] k = 4 -> "d"
      [] k = 5 -> "e" [] k = 6 -> "f" [] OTHER -> ToString(k % 10)

\* The ObjectId the driver generates for the k-th inserted exam: the counter part differs.
NewObjectId(k) == OidPrefix \o <<HexDigit(k)>>

\* str(ObjectId)
OidStr(o) == o

\* An identifier string with its letters in lower case.
LowerCased(s) == [i \in 1 .. Len(s) |-> ToLowerChar(s[i])]

\* The {exam_id} path parameters the requests carry: the identifiers of the first two
\* exams, the first one again in upper case, one of the wrong length and one of the
\* right length with a character that is no hex digit.
RawIds ==
    {NewObjectId(1), NewObjectId(2)}
        \cup {[i \in 1 .. 24 |-> ToUpperChar(NewObjectId(1)[i])]}
        \cup {<<"a","b","c">>}
        \cup {[i \in 1 .. 24 |-> IF i = 1 THEN "g" ELSE NewObjectId(1)[i]]}

-----------------------------------------------------------------------------
(* Secrets *)

\* The passwords the verify requests carry.
Passwords == {"secret123", "wrong", "Secret123"}

Sha256Hex(pw) ==
    CASE pw = "secret123" -> "fcf730b6d95236ecd3c9fc2d92d7b6b2bb061514961aec041d6c7a7192f592e4"
      [] pw = "wrong" -> "8810ad581e59f2bc3928b261707a71308f7e139eb04820366dc4d5c18d980225"
      [] pw = "Secret123" -> "2ed06766795d58a4f22d511a672f20a6b096d3fe5b56af3a744678a9a356fd82"
      [] pw = "" -> "e3b0c44298fc1c149afbf4c8996fb92427ae41e4649b934ca495991b7852b855"

\* A plausible slip: the password is case-folded before it is hashed.
hash_password_casefold(pw) == Sha256Hex(IF pw = "Secret123" THEN "secret123" ELSE pw)

\* hashlib.sha256(pw.encode()).hexdigest(), on the passwords of the model.
hash_password(pw) == Sha256Hex(pw)

\* Values make_slug() can return: 8 hex digits of a digest of 16 random bytes.
SlugSeq == <<"3f2a9c1e", "b07d44a8", "5e6f7a8b", "c9d0e1f2", "0a1b2c3d", "9e8d7c6b">>
Slugs == {SlugSeq[1], SlugSeq[2]}

-----------------------------------------------------------------------------
(* Requests *)

ExamBodies ==
    { [url |-> "https://forms.example.com/f1", password |-> "secret123"],
      [url |-> "https://quiz.example.org/q/2", password |-> "wrong"] }

\* A log request: the LogBody and what the Request carries (client host, user-agent header).
LogRequestBlur == [type |-> "blur", details |-> None, ts |-> None, ip |-> None, ua |-> None]

LogRequests ==
    { LogRequestBlur,
      [type |-> "fullscreen-exit", details |-> Some("left fullscreen"), ts |-> Some(0),
       ip |-> Some("203.0.113.7"), ua |-> Some("Mozilla/5.0")],
      [type |-> "blur", details |-> Some(""), ts |-> Some(1500),
       ip |-> Some("203.0.113.7"), ua |-> None] }

\* The readings of the clock.
Times == {0, 1}

\* The two readings create_exam takes, the second not before the first.
CreateTimes == {tt \in Times \X Times : tt[1] <= tt[2]}

\* os.getenv("FRONTEND_BASE_URL")
FrontendBases == {None, Some("https://proctor.example/")}

\* str(request.base_url)
RequestBaseUrl == "http://testserver/"

\* s.rstrip('/') on the base addresses of the model.
RStripSlash(s) ==
    CASE s = "https://proctor.example/" -> "https://proctor.example"
      [] s = "http://testserver/" -> "http://testserver"
      [] OTHER -> s

\* The request domains of Spec: every body, slugs that can collide, a clock that stands still.
ExamInputs ==
    [bodies |-> ExamBodies, fresh_slug |-> FALSE, create_times |-> {<<0, 0>>},
     frontend_bases |-> FrontendBases, passwords |-> Passwords,
     log_requests |-> {LogRequestBlur}, log_times |-> {0}]

\* The request domains of SpecLog: one body, a slug not drawn before, a clock that
\* stands still or passes during create_exam, every clock reading and every request
\* for log_event.
LogInputs ==
    [bodies |-> {[url |-> "https://forms.example.com/f1", password |-> "secret123"]},
     fresh_slug |-> TRUE, create_times |-> {tt \in CreateTimes : tt[1] = 0},
     frontend_bases |-> {None}, passwords |-> {"secret123", "wrong"},
     log_requests |-> LogRequests, log_times |-> Times]

\* What make_slug() returns to the next create_exam, under the domains in.
make_slug(in) == IF in.fresh_slug THEN {SlugSeq[Len(exam) + 1]} ELSE Slugs

-----------------------------------------------------------------------------
(* Rendering of timestamps *)

Pad(n, width) ==
    LET s == ToString(n)
    IN  CASE width = 2 /\ n < 10 -> "0" \o s
          [] width = 6 /\ n < 10 -> "00000" \o s
          [] width = 6 /\ n < 100 -> "0000" \o s
          [] width = 6 /\ n < 1000 -> "000" \o s
          [] width = 6 /\ n < 10000 -> "00" \o s
          [] width = 6 /\ n < 100000 -> "0" \o s
          [] OTHER -> s

\* datetime.fromtimestamp(ms / 1000.0).isoformat(), for a time within the first hour
\* of the epoch: isoformat() leaves the fraction out when it is zero.
IsoFormat(ms) ==
    LET secs == ms \div 1000
        micros == (ms % 1000) * 1000
        hms == "1970-01-01T00:" \o Pad(secs \div 60, 2) \o ":" \o Pad(secs % 60, 2)
    IN  IF micros = 0 THEN hms ELSE hms \o "." \o Pad(micros, 6)

\* dt.astimezone(timezone.utc).isoformat()
IsoFormatUtc(ms) == IsoFormat(ms) \o "+00:00"

-----------------------------------------------------------------------------
(* The store *)

\* A plausible slip: the write replaces the newest document instead of adding one.
InsertOneReplacing(coll, doc) ==
    IF coll = <<>> THEN <<doc>> ELSE [coll EXCEPT ![Len(coll)] = doc]

\* collection.insert_one(doc)
InsertOne(coll, doc) == Append(coll, doc)

\* db["exam"].find_one({"slug": slug}): the first match in natural order, None without one.
FindOneBySlug(slug) ==
    LET hits == {i \in 1 .. Len(exam) : exam[i].slug = slug}
    IN  IF hits = {} THEN None
        ELSE Some(exam[CHOOSE i \in hits : \A j \in hits : i <= j])

\* db["exam"].find_one({"_id": id})
FindOneById(id) ==
    LET hits == {i \in 1 .. Len(exam) : exam[i]._id = id}
    IN  IF hits = {} THEN None
        ELSE Some(exam[CHOOSE i \in hits : \A j \in hits : i <= j])

\* db["examlog"].find({"exam_id": id}), in natural order.
FindLogs(id) == SelectSeq(examlog, LAMBDA l : l.exam_id = id)

\* One step of the store's sort: e is placed among the already sorted s. Documents
\* with equal keys come out in natural order, or in the reverse of it when tie is
\* "reverse" (the store promises no order among equal keys).
RECURSIVE InsertSorted(_, _, _)
InsertSorted(e, s, tie) ==
    IF s = <<>> THEN <<e>>
    ELSE IF e.server_ts < Head(s).server_ts
            \/ (tie = "reverse" /\ e.server_ts = Head(s).server_ts)
         THEN <<e>> \o s
         ELSE <<Head(s)>> \o InsertSorted(e, Tail(s), tie)

\* A plausible slip: the cursor is read without .sort().
SortOmitted(s, tie) == s

\* cursor.sort("server_ts", 1)
RECURSIVE SortByServerTs(_, _)
SortByServerTs(s, tie) ==
    IF s = <<>> THEN <<>>
    ELSE InsertSorted(s[Len(s)], SortByServerTs(SubSeq(s, 1, Len(s) - 1), tie), tie)

-----------------------------------------------------------------------------
(* Responses *)

NoResponse == [op |-> "none", status |-> 0]

HTTPException(op, req, status, detail) ==
    [op |-> op, req |-> req, status |-> status, body |-> [detail |-> detail]]

Ok(op, req, body) == [op |-> op, req |-> req, status |-> 200, body |-> body]

-----------------------------------------------------------------------------
(* State after start-up: both collections empty, the handle configured or not *)

Init ==
    /\ db \in BOOLEAN
    /\ exam = <<>>
    /\ examlog = <<>>
    /\ resp = NoResponse
    /\ issued = <<>>
    /\ acked = <<>>

\* GET /
read_root ==
    /\ resp' = Ok("read_root", [path |-> "/"], [message |-> "ProctorLink API running"])
    /\ UNCHANGED <<db, exam, examlog, issued, acked>>

\* GET /test
test_database ==
    /\ \E raises \in BOOLEAN :
         resp' = Ok("test_database", [path |-> "/test"],
                    [backend |-> "Running",
                     database |-> IF ~db THEN "Not Available"
                                  ELSE IF raises THEN "Error" ELSE "Connected"])
    /\ UNCHANGED <<db, exam, examlog, issued, acked>>

\* POST /exams
create_exam(in) ==
    \E body \in in.bodies, slug \in make_slug(in), tt \in in.create_times,
       frontend_base \in in.frontend_bases :
        LET req == [body |-> body]
        IN  IF ~db
            THEN /\ resp' = HTTPException("create_exam", req, 500, "Database not configured")
                 /\ UNCHANGED <<db, exam, examlog, issued, acked>>
            ELSE LET exam_id == NewObjectId(Len(exam) + 1)
                     exam_doc == [_id |-> exam_id,
                                  url |-> body.url,
                                  password_hash |-> hash_password(body.password),
                                  slug |-> slug,
                                  created_at |-> tt[1],
                                  updated_at |-> tt[2]]
                     path == "/x/" \o slug
                     short_url == IF TruthyStr(frontend_base)
                                  THEN RStripSlash(frontend_base[1]) \o path
                                  ELSE RStripSlash(RequestBaseUrl) \o path
                     out == [id |-> OidStr(exam_id), slug |-> slug,
                             short_url |-> short_url, embed_url |-> body.url]
                 IN  /\ Len(exam) + Len(examlog) < MaxDocs
                     /\ exam' = InsertOne(exam, exam_doc)
                     /\ resp' = Ok("create_exam", req, out)
                     /\ issued' = Append(issued, [id |-> out.id, slug |-> out.slug,
                                                  embed_url |-> out.embed_url,
                                                  password |-> body.password])
                     /\ UNCHANGED <<db, examlog, acked>>

\* GET /exams/slug/{slug}
get_exam_by_slug ==
    \E slug \in Slugs \cup {"00000000"} :
        LET req == [slug |-> slug]
            doc == FindOneBySlug(slug)
        IN  /\ resp' = IF ~db
                       THEN HTTPException("get_exam_by_slug", req, 500, "Database not configured")
                       ELSE IF IsNone(doc)
                       THEN HTTPException("get_exam_by_slug", req, 404, "Exam not found")
                       ELSE Ok("get_exam_by_slug", req,
                               [id |-> OidStr(doc[1]._id), slug |-> slug, embed_url |-> doc[1].url])
            /\ UNCHANGED <<db, exam, examlog, issued, acked>>

\* A plausible slip: the identifier is parsed before the handle is looked at.
verify_exam_password_parse_first(in) ==
    \E exam_id \in RawIds, password \in in.passwords :
        LET req == [exam_id |-> exam_id, password |-> password]
            doc == FindOneById(ObjectIdOf(exam_id))
            ok == doc[1].password_hash = hash_password(password)
        IN  /\ resp' = IF ~ObjectIdValid(exam_id)
                       THEN HTTPException("verify_exam_password", req, 400, "Invalid ID")
                       ELSE IF ~db
                       THEN HTTPException("verify_exam_password", req, 500, "Database not configured")
                       ELSE IF IsNone(doc)
                       THEN HTTPException("verify_exam_password", req, 404, "Exam not found")
                       ELSE Ok("verify_exam_password", req,
                               [ok |-> ok, message |-> IF ok THEN "OK" ELSE "Invalid password"])
            /\ UNCHANGED <<db, exam, examlog, issued, acked>>

\* POST /exams/{exam_id}/verify
verify_exam_password(in) ==
    \E exam_id \in RawIds, password \in in.passwords :
        LET req == [exam_id |-> exam_id, password |-> password]
            doc == FindOneById(ObjectIdOf(exam_id))
            ok == doc[1].password_hash = hash_password(password)
        IN  /\ resp' = IF ~db
                       THEN HTTPException("verify_exam_password", req, 500, "Database not configured")
                       ELSE IF ~ObjectIdValid(exam_id)
                       THEN HTTPException("verify_exam_password", req, 400, "Invalid ID")
                       ELSE IF IsNone(doc)
                       THEN HTTPException("verify_exam_password", req, 404, "Exam not found")
                       ELSE Ok("verify_exam_password", req,
                               [ok |-> ok, message |-> IF ok THEN "OK" ELSE "Invalid password"])
            /\ UNCHANGED <<db, exam, examlog, issued, acked>>

\* The document log_event builds from the request r, received at clock reading t.
LogDocument(exam_id, r, t) ==
    [exam_id |-> ObjectIdOf(exam_id),
     type |-> r.type,
     details |-> IF TruthyStr(r.details) THEN r.details[1] ELSE "",
     client_ts |-> r.ts,
     server_ts |-> t,
     ip |-> r.ip,
     ua |-> r.ua]

\* A plausible slip: the entry is inserted without looking the exam up.
log_event_unchecked(in) ==
    \E exam_id \in RawIds :
        LET req == [exam_id |-> exam_id]
        IN  IF ~db
            THEN /\ resp' = HTTPException("log_event", req, 500, "Database not configured")
                 /\ UNCHANGED <<db, exam, examlog, issued, acked>>
            ELSE IF ~ObjectIdValid(exam_id)
            THEN /\ resp' = HTTPException("log_event", req, 400, "Invalid ID")
                 /\ UNCHANGED <<db, exam, examlog, issued, acked>>
            ELSE \E r \in in.log_requests, t \in in.log_times :
                 /\ Len(exam) + Len(examlog) < MaxDocs
                 /\ examlog' = InsertOne(examlog, LogDocument(exam_id, r, t))
                 /\ resp' = Ok("log_event", req, [ok |-> TRUE])
                 /\ acked' = Append(acked, [exam_id |-> LowerCased(exam_id), r |-> r])
                 /\ UNCHANGED <<db, exam, issued>>

\* POST /exams/{exam_id}/log
log_event(in) ==
    \E exam_id \in RawIds :
        LET req == [exam_id |-> exam_id]
        IN  IF ~db
            THEN /\ resp' = HTTPException("log_event", req, 500, "Database not configured")
                 /\ UNCHANGED <<db, exam, examlog, issued, acked>>
            ELSE IF ~ObjectIdValid(exam_id)
            THEN /\ resp' = HTTPException("log_event", req, 400, "Invalid ID")
                 /\ UNCHANGED <<db, exam, examlog, issued, acked>>
            ELSE IF IsNone(FindOneById(ObjectIdOf(exam_id)))
            THEN /\ resp' = HTTPException("log_event", req, 404, "Exam not found")
                 /\ UNCHANGED <<db, exam, examlog, issued, acked>>
            ELSE \E r \in in.log_requests, t \in in.log_times :
                 /\ Len(exam) + Len(examlog) < MaxDocs
                 /\ examlog' = InsertOne(examlog, LogDocument(exam_id, r, t))
                 /\ resp' = Ok("log_event", req, [ok |-> TRUE])
                 /\ acked' = Append(acked, [exam_id |-> LowerCased(exam_id), r |-> r])
                 /\ UNCHANGED <<db, exam, issued>>

Header == <<"#", "Event", "Details", "Client Time", "Server Time", "IP", "User Agent">>

\* The row export_log appends for the i-th retrieved entry l.
ExportRow(i, l) ==
    LET client_time == IF TruthyInt(l.client_ts) THEN IsoFormat(l.client_ts[1]) ELSE ""
        server_time == IsoFormatUtc(l.server_ts)
    IN  <<i, l.type, l.details, client_time, server_time, l.ip, l.ua>>

\* GET /exams/{exam_id}/export
export_log ==
    \E exam_id \in RawIds :
        LET req == [exam_id |-> exam_id]
        IN  /\ IF ~db
               THEN resp' = HTTPException("export_log", req, 500, "Database not configured")
               ELSE IF ~ObjectIdValid(exam_id)
               THEN resp' = HTTPException("export_log", req, 400, "Invalid ID")
               ELSE IF IsNone(FindOneById(ObjectIdOf(exam_id)))
               THEN resp' = HTTPException("export_log", req, 404, "Exam not found")
               ELSE \E openpyxl \in BOOLEAN, tie \in {"natural", "reverse"} :
                    LET logs == SortByServerTs(FindLogs(ObjectIdOf(exam_id)), tie)
                        rows == <<Header>> \o [i \in 1 .. Len(logs) |-> ExportRow(i, logs[i])]
                    IN  resp' = IF ~openpyxl
                                THEN HTTPException("export_log", req, 500,
                                                   "openpyxl not installed on server")
                                ELSE Ok("export_log", req,
                                        [rows |-> rows,
                                         filename |-> <<"exam_", exam_id, "_log.xlsx">>])
            /\ UNCHANGED <<db, exam, examlog, issued, acked>>

Next ==
    \/ read_root
    \/ test_database
    \/ create_exam(ExamInputs)
    \/ get_exam_by_slug
    \/ verify_exam_password(ExamInputs)
    \/ log_event(ExamInputs)
    \/ export_log

NextLog ==
    \/ read_root
    \/ test_database
    \/ create_exam(LogInputs)
    \/ get_exam_by_slug
    \/ verify_exam_password(LogInputs)
    \/ log_event(LogInputs)
    \/ export_log

Spec == Init /\ [][Next]_vars

SpecLog == Init /\ [][NextLog]_vars

-----------------------------------------------------------------------------
(* What the claims are stated in *)

\* The identifier string raw is structurally valid: 24 hex digits.
WellFormedId(raw) ==
    /\ Len(raw) = 24
    /\ \A i \in 1 .. 24 : raw[i] \in
         {"0","1","2","3","4","5","6","7","8","9",
          "a","b","c","d","e","f","A","B","C","D","E","F"}

\* The identifier string raw names the stored identifier id.
Names(raw, id) == Len(raw) = 24 /\ LowerCased(raw) = id

ExamExists(raw) == \E k \in 1 .. Len(exam) : Names(raw, exam[k]._id)

IdOps == {"verify_exam_password", "log_event", "export_log"}

ExamOps == {"create_exam", "get_exam_by_slug"} \cup IdOps

\* The positions in examlog of the entries of the exam that raw names.
EntriesOf(raw) == {j \in 1 .. Len(examlog) : Names(raw, examlog[j].exam_id)}

\* The number of log_event calls for the exam that raw names that returned 200.
AckedFor(raw) == Cardinality({k \in 1 .. Len(acked) : Names(raw, acked[k].exam_id)})

\* The table row shows entry l under sequence number i (the client-time cell apart).
RowShows(row, i, l) ==
    /\ row[1] = i
    /\ row[2] = l.type
    /\ row[3] = l.details
    /\ row[5] = IsoFormatUtc(l.server_ts)
    /\ row[6] = l.ip
    /\ row[7] = l.ua

\* The ways to lay the n data rows of the exported table over the entries of the exam:
\* each row shows an entry of its own.
Layouts(raw, rows, n) ==
    {p \in [1 .. n -> EntriesOf(raw)] :
        /\ \A i, j \in 1 .. n : i # j => p[i] # p[j]
        /\ \A i \in 1 .. n : RowShows(rows[i + 1], i, examlog[p[i]])}

-----------------------------------------------------------------------------
(* C1 *)

\* C1: for every exam create_exam has stored and every password p, verify_password
\* returns 200 with ok = TRUE and message "OK" when p is the password that create_exam
\* call was given, and ok = FALSE with message "Invalid password" for any other p, after
\* any sequence of requests.
C1_VerifyIffOriginalPassword ==
    resp.op = "verify_exam_password" =>
        \A k \in 1 .. Len(issued) :
            Names(resp.req.exam_id, issued[k].id) =>
                /\ resp.status = 200
                /\ resp.body.ok = (resp.req.password = issued[k].password)
                /\ resp.body.message =
                     IF resp.req.password = issued[k].password THEN "OK" ELSE "Invalid password"

\* A second exam exists, and a password that differs from its own only in case was refused.
C1_Witness ==
    /\ resp.op = "verify_exam_password"
    /\ resp.status = 200
    /\ Len(issued) = 2
    /\ resp.req.password = "Secret123"
    /\ \E k \in 1 .. Len(issued) :
         Names(resp.req.exam_id, issued[k].id) /\ issued[k].password = "secret123"
    /\ resp.body.ok = FALSE

-----------------------------------------------------------------------------
(* C2 *)

\* C2: get_exam_by_slug(s) returns the embed_url and the id that every create_exam call
\* that returned slug s returned.
C2_SlugResolvesToIssuedExam ==
    resp.op = "get_exam_by_slug" =>
        \A k \in 1 .. Len(issued) :
            issued[k].slug = resp.req.slug =>
                /\ resp.status = 200
                /\ resp.body.embed_url = issued[k].embed_url
                /\ resp.body.id = issued[k].id

-----------------------------------------------------------------------------
(* C3 *)

-----------------------------------------------------------------------------
(* C4 *)

C4_Step ==
    LET r == resp'
    IN  /\ (db /\ r.op \in IdOps /\ ~WellFormedId(r.req.exam_id)) =>
               (r.status = 400 /\ UNCHANGED <<exam, examlog>>)
        /\ (db /\ r.op \in IdOps /\ WellFormedId(r.req.exam_id) /\ ~ExamExists(r.req.exam_id)) =>
               (r.status = 404 /\ UNCHANGED <<exam, examlog>>)
        /\ (db /\ r.op = "get_exam_by_slug"
               /\ ~\E k \in 1 .. Len(exam) : exam[k].slug = r.req.slug) =>
               (r.status = 404 /\ UNCHANGED <<exam, examlog>>)

\* C4: with the store configured, get_exam_by_slug with a slug of no exam fails with 404,
\* and verify_password, log_event and export_log fail with 400 on a malformed id and with
\* 404 on a well-formed id of no exam; such a request changes neither collection.
C4_MissingOrMalformedFails == [][C4_Step]_vars

\* A log_event for a well-formed id of no exam was refused while the store holds an exam
\* and an entry.
C4_Witness ==
    /\ db
    /\ resp.op = "log_event"
    /\ resp.status = 404
    /\ Len(exam) = 1
    /\ Len(examlog) = 1

-----------------------------------------------------------------------------
(* C5 *)

\* C5: no two stored exams carry the same slug.
C5_SlugUnique ==
    \A i, j \in 1 .. Len(exam) : i # j => exam[i].slug # exam[j].slug

-----------------------------------------------------------------------------
(* C6 *)

\* C6 as stated: without a database handle every operation, health and the connectivity
\* check included, fails with a server error.
C6_EveryOperationFails ==
    (~db /\ resp.op # "none") => resp.status >= 500

\* C6 as amended: without a database handle, create exam, resolve by slug, verify
\* password, log event and export log each fail with 500 "Database not configured",
\* whatever the other inputs (a malformed id included), and nothing is written; health
\* and the connectivity check still answer 200.
C6_ExamOperationsFail ==
    ~db =>
        /\ exam = <<>>
        /\ examlog = <<>>
        /\ resp.op \in ExamOps =>
               (resp.status = 500 /\ resp.body.detail = "Database not configured")
        /\ resp.op \in {"read_root", "test_database"} => resp.status = 200

\* Without a handle, a verify request with a malformed id was answered 500.
C6_Witness ==
    /\ ~db
    /\ resp.op = "verify_exam_password"
    /\ ~WellFormedId(resp.req.exam_id)
    /\ resp.status = 500

-----------------------------------------------------------------------------
(* C7 *)

\* C7: every entry of examlog has the id of an exam of the exam collection as its exam_id.
C7_EntriesReferenceExams ==
    \A j \in 1 .. Len(examlog) : \E k \in 1 .. Len(exam) : exam[k]._id = examlog[j].exam_id

\* An entry was logged for the first exam, and a second exam created after it.
C7_Witness ==
    /\ Len(examlog) = 1
    /\ Len(exam) = 2
    /\ examlog[1].exam_id = exam[1]._id
    /\ resp.op = "create_exam"

-----------------------------------------------------------------------------
(* C8 *)

\* C8: in the exported table the client-time cell of an entry is empty exactly when the
\* entry's client_ts is absent, and holds the ISO-8601 rendering of client_ts when it
\* is present, 0 included.
C8_ClientTimeBlankIffAbsent ==
    (resp.op = "export_log" /\ resp.status = 200) =>
        LET raw == resp.req.exam_id
            rows == resp.body.rows
        IN  \E p \in Layouts(raw, rows, Len(rows) - 1) :
                \A i \in 1 .. Len(rows) - 1 :
                    LET ts == examlog[p[i]].client_ts
                    IN  /\ (rows[i + 1][4] = "") <=> (ts = None)
                        /\ ts # None => rows[i + 1][4] = IsoFormat(ts[1])

-----------------------------------------------------------------------------
(* C9 *)

\* C9: every stored exam has created_at equal to updated_at.
C9_TimestampsEqual ==
    \A k \in 1 .. Len(exam) : exam[k].created_at = exam[k].updated_at

-----------------------------------------------------------------------------
(* C10 *)

Extends(after, before) ==
    Len(after) = Len(before) + 1 /\ SubSeq(after, 1, Len(before)) = before

C10_Step ==
    LET r == resp'
    IN  /\ r.op \in {"read_root", "test_database", "get_exam_by_slug",
                     "verify_exam_password", "export_log"} =>
               UNCHANGED <<exam, examlog>>
        /\ r.op = "create_exam" =>
               /\ examlog' = examlog
               /\ IF r.status = 200 THEN Extends(exam', exam) ELSE exam' = exam
        /\ r.op = "log_event" =>
               /\ exam' = exam
               /\ IF r.status = 200 THEN Extends(examlog', examlog) ELSE examlog' = examlog

\* C10: both collections are append-only. get_exam_by_slug, verify_password and
\* export_log change neither; create_exam adds one exam after the existing ones and
\* leaves examlog alone; a log_event that returns 200 adds one entry after the
\* existing ones and leaves the exams alone.
C10_AppendOnly == [][C10_Step]_vars

\* Two exams and an entry are stored, and the log of one was exported.
C10_Witness ==
    /\ Len(exam) = 2
    /\ Len(examlog) = 1
    /\ resp.op = "export_log"
    /\ resp.status = 200

====
